---- MODULE Spec2Model ----
(***************************************************************************)
(* Model of the plugin import resolver (src/src/resolver.ts).              *)
(*                                                                         *)
(* Every resolve(moduleName) call is an asynchronous function: it runs     *)
(* synchronously up to an `await`, is suspended there, and is resumed by   *)
(* the event loop.  One action of the model is one such synchronous run.   *)
(* Several calls may be suspended at once; they share the persisted        *)
(* settings (composite.allowCDN).                                          *)
(***************************************************************************)
EXTENDS Naturals, Sequences, FiniteSets

\* Number of resolve calls that may be started (bound of the model).
NumCalls == 2

Calls == 1..NumCalls

--------------------------------------------------------------------------
\* Strings are sequences of characters, so that startsWith and the
\* template literal `${moduleName}:${prop}` are computed, not assumed.

ModM   == <<"m">>            \* registered in the known-module map
ModK   == <<".", "/", "k">>  \* registered in the known-module map, relative marker
ModA   == <<".", "/", "a">>  \* relative, not registered
ModExt == <<"e">>            \* neither registered nor relative

ModuleNames == {ModM, ModK, ModA, ModExt}

PropX == <<"x">>
PropY == <<"y">>
PropT == <<"t">>

\* A property key of a Proxy get trap: a string, or a symbol (with a description).
Props ==
    [isString : {TRUE}, name : {PropX, PropY, PropT}]
        \cup [isString : {FALSE}, name : {PropX}]

\* Object identities.  "null" and "undefined" are the two JavaScript non-values.
ObjM == "obj:m"
ObjK == "obj:k"
ObjFile == "obj:file"
ObjAMD == "obj:amd"
Null == "null"
Undefined == "undefined"

\* The value of an attribute read is a sequence: <<owner, ".", name>> for an
\* object's own attribute, <<"Token", key>> for a token, AttrUndefined otherwise.
AttrUndefined == <<"undefined">>

\* Own string-keyed attributes of each object (the file content is text and
\* the non-values have none).
OwnAttrs(obj) ==
    CASE obj = ObjM   -> [p \in {PropX, PropY} |-> <<"m", ".">> \o p]
      [] obj = ObjK   -> [p \in {PropY} |-> <<"k", ".">> \o p]
      [] obj = ObjAMD -> [p \in {PropX} |-> <<"amd", ".">> \o p]
      [] OTHER        -> [p \in {} |-> AttrUndefined]

\* options.modules: the known-module map.
modules == [n \in {ModM, ModK} |-> IF n = ModM THEN ObjM ELSE ObjK]

\* options.tokenMap: "<module>:<name>" -> token.
tokenMap ==
    [k \in {ModM \o <<":">> \o PropX, ModM \o <<":">> \o PropT,
            ModExt \o <<":">> \o PropX, ModA \o <<":">> \o PropX}
        |-> <<"Token">> \o k]

CDNPolicy == {"awaiting-decision", "always-insecure", "never"}

\* Labels of the three buttons of the consent dialog.
Buttons == {"Forbid", "Abort", "Allow"}

\* What the content service and the loader can hand back.  file.content is
\* untyped: the text of the file, or null for a model that carries no content
\* (resolve tests localFile !== null).  The success callback of require gets
\* the module value, which is undefined for a script that defines nothing.
FileContents == {ObjFile, Null}
AMDValues == {ObjAMD, Null, Undefined}


\* Reflect.get(target, prop, receiver) on a plain object.
ReflectGet(target, prop) ==
    IF prop.isString /\ prop.name \in DOMAIN OwnAttrs(target)
    THEN OwnAttrs(target)[prop.name]
    ELSE AttrUndefined

\* Mutant of startsWith: the character after the first is compared.
startsWith_OffByOne(data, prefix) == Len(data) > 1 /\ data[2] = prefix

\* data.startsWith(prefix) for a one-character prefix.
startsWith(data, prefix) == Len(data) > 0 /\ data[1] = prefix

\* `${moduleName}:${prop}`
tokenName(name, prop) == name \o <<":">> \o prop

\* Mutant of tokenHandlerGet: the target's own attribute wins over the token.
tokenHandlerGet_OwnFirst(name, target, prop) ==
    IF ~prop.isString
    THEN ReflectGet(target, prop)
    ELSE IF prop.name \in DOMAIN OwnAttrs(target)
         THEN ReflectGet(target, prop)
         ELSE IF tokenName(name, prop.name) \in DOMAIN tokenMap
              THEN tokenMap[tokenName(name, prop.name)]
              ELSE ReflectGet(target, prop)

\* tokenHandler.get: the get trap of the Proxy that resolve() wraps a known
\* module in; name is the moduleName the handler closed over.
tokenHandlerGet(name, target, prop) ==
    IF ~prop.isString
    THEN ReflectGet(target, prop)
    ELSE IF tokenName(name, prop.name) \in DOMAIN tokenMap
         THEN tokenMap[tokenName(name, prop.name)]
         ELSE ReflectGet(target, prop)

\* Reading attribute prop of the value a resolve(name) call returned: through
\* the get trap when the value is a Proxy, directly otherwise.
GetAttr(res, name, prop) ==
    IF res.proxy
    THEN tokenHandlerGet(name, res.val, prop)
    ELSE ReflectGet(res.val, prop)

\* Mutant of resolveKnownModule: relative identifiers are left to the
\* local-file strategy.
resolveKnownModule_RelativeSkipped(data) ==
    IF data \in DOMAIN modules /\ ~startsWith(data, ".") THEN modules[data] ELSE Null

\* _resolveKnownModule
resolveKnownModule(data) ==
    IF data \in DOMAIN modules THEN modules[data] ELSE Null

\* Mutants of askUserForCDNPolicy: the labels of `Forbid` and `Allow` swapped;
\* the `Abort` case missing; the `Forbid` case missing.
askUserForCDNPolicy_Swapped(label) ==
    CASE label = "Forbid" -> "always-insecure"
      [] label = "Allow"  -> "never"
      [] label = "Abort"  -> "abort-to-investigate"
      [] OTHER            -> "awaiting-decision"

askUserForCDNPolicy_NoAbort(label) ==
    CASE label = "Forbid" -> "never"
      [] label = "Allow"  -> "always-insecure"
      [] OTHER            -> "awaiting-decision"

askUserForCDNPolicy_NoForbid(label) ==
    CASE label = "Allow"  -> "always-insecure"
      [] label = "Abort"  -> "abort-to-investigate"
      [] OTHER            -> "awaiting-decision"

\* The switch of askUserForCDNPolicy on the label of the pressed button.
askUserForCDNPolicy(label) ==
    CASE label = "Forbid" -> "never"
      [] label = "Allow"  -> "always-insecure"
      [] label = "Abort"  -> "abort-to-investigate"
      [] OTHER            -> "awaiting-decision"

\* Mutants of consentSwitch: `never` agrees; `never` prompts; every policy
\* but `never` prompts.
consentSwitch_NeverAgrees(policy) ==
    CASE policy = "awaiting-decision" -> "prompt"
      [] policy = "never"             -> "agreed"
      [] policy = "always-insecure"   -> "agreed"

consentSwitch_NeverPrompts(policy) ==
    CASE policy = "awaiting-decision" -> "prompt"
      [] policy = "never"             -> "prompt"
      [] policy = "always-insecure"   -> "agreed"

consentSwitch_PromptsUnlessNever(policy) ==
    CASE policy = "awaiting-decision" -> "prompt"
      [] policy = "never"             -> "refused"
      [] policy = "always-insecure"   -> "prompt"

\* The switch of _getCDNConsent on the policy it read: open the prompt, or
\* hand back a consent.
consentSwitch(policy) ==
    CASE policy = "awaiting-decision" -> "prompt"
      [] policy = "never"             -> "refused"
      [] policy = "always-insecure"   -> "agreed"

\* Error messages.
ErrAborted == <<"User aborted execution when asked about CDN policy">>
ErrNotAllowed(data) ==
    <<"Module ">> \o data \o <<" requires execution from CDN but it is not allowed.">>
ErrCouldNotResolve(data) == <<"Could not resolve the module ">> \o data
ErrNoDocumentManager(data) ==
    <<"Cannot resolve import of local module ">> \o data
        \o <<": document manager is not available">>
ErrNoBasePath(data) ==
    <<"Cannot resolve import of local module ">> \o data
        \o <<": the base path was not provided">>
ErrContents == <<"contents.get rejected">>
ErrLoader == <<"requirejs error">>

--------------------------------------------------------------------------
VARIABLES
    allowCDN,         \* settings.composite.allowCDN
    documentManager,  \* options.documentManager: "dm" or "null"
    basePath,         \* options.basePath: "path" or "null"
    pc,               \* where each call is suspended
    moduleName,       \* argument of each call
    result,           \* what each call settled with
    lastRead,         \* the policy the call last read in _getCDNConsent
    decision,         \* label of the button the user pressed in the call's prompt
    newPolicy,        \* the value the call passed to settings.set
    prompts,          \* consent prompts opened by the call
    writes,           \* settings writes of the call that completed
    loaderCalls,      \* requirejs.require invocations of the call
    docReads,         \* contents.get invocations of the call
    errDialogs,       \* error dialogs shown by the call
    consent,          \* the ICDNConsent _getCDNConsent handed to the call
    got,              \* last attribute read on the value the call returned
    shown,            \* the errors the call handed to handleImportError
    reads,            \* reads of composite.allowCDN by the call
    loaded,           \* what the loader called back with for the call
    code,             \* the plugin source handed to transpile
    requireDefaultExport, \* the second argument of transpile
    transpiled,       \* what transpile returned or threw
    plugin,           \* where the plugin body is in its execution
    ip,               \* the require call the plugin body runs next
    waiting           \* the resolve call the plugin body awaits, 0 if none

pluginVars == <<code, requireDefaultExport, transpiled, plugin, ip, waiting>>

vars == <<allowCDN, documentManager, basePath, pc, moduleName, result, lastRead,
          decision, newPolicy, prompts, writes, loaderCalls, docReads,
          errDialogs, consent, got, shown, reads, loaded, pluginVars>>

\* A call's outcome: still pending, returned val (wrapped in a Proxy or not),
\* or rejected with an error (its message).
Pending == [status |-> "pending", proxy |-> FALSE, val |-> "none", error |-> <<>>]
Returned(isProxy, v) == [status |-> "returned", proxy |-> isProxy, val |-> v, error |-> <<>>]
Rejected(err) == [status |-> "rejected", proxy |-> FALSE, val |-> "none", error |-> err]

NoGet == [prop |-> [isString |-> TRUE, name |-> <<>>], val |-> <<>>]

\* transpile has not been called.
NotTranspiled == [status |-> "none", text |-> <<>>]

\* The resolver after construction, no call made.
ResolverInit ==
    /\ allowCDN \in CDNPolicy
    /\ documentManager \in {"dm", "null"}
    /\ basePath \in {"path", "null"}
    /\ pc = [c \in Calls |-> "idle"]
    /\ moduleName = [c \in Calls |-> <<>>]
    /\ result = [c \in Calls |-> Pending]
    /\ lastRead = [c \in Calls |-> "none"]
    /\ decision = [c \in Calls |-> "none"]
    /\ newPolicy = [c \in Calls |-> "none"]
    /\ prompts = [c \in Calls |-> 0]
    /\ writes = [c \in Calls |-> 0]
    /\ loaderCalls = [c \in Calls |-> 0]
    /\ docReads = [c \in Calls |-> 0]
    /\ errDialogs = [c \in Calls |-> 0]
    /\ consent = [c \in Calls |-> "none"]
    /\ got = [c \in Calls |-> NoGet]
    /\ shown = [c \in Calls |-> <<>>]
    /\ reads = [c \in Calls |-> 0]
    /\ loaded = [c \in Calls |-> "none"]

\* The resolver on its own: calls come from any number of plugin instances,
\* none of which is followed.
Init ==
    /\ ResolverInit
    /\ code = <<>>
    /\ requireDefaultExport = FALSE
    /\ transpiled = NotTranspiled
    /\ plugin = "none"
    /\ ip = 0
    /\ waiting = 0

--------------------------------------------------------------------------
\* Mutant of Throw: the failure also cancels every other call in flight.
Throw_CancelsSiblings(c, err) ==
    /\ errDialogs' = [errDialogs EXCEPT ![c] = @ + 1]
    /\ shown' = [shown EXCEPT ![c] = Append(@, err)]
    /\ result' = [result EXCEPT ![c] = Rejected(err)]
    /\ pc' = [d \in Calls |-> IF d = c \/ pc[d] # "idle" THEN "done" ELSE pc[d]]

\* Mutant of Throw: the catch block rethrows without showing the error.
Throw_Silent(c, err) ==
    /\ UNCHANGED <<errDialogs, shown>>
    /\ result' = [result EXCEPT ![c] = Rejected(err)]
    /\ pc' = [pc EXCEPT ![c] = "done"]

\* The catch block of resolve: show the error dialog, rethrow.
Throw(c, err) ==
    /\ errDialogs' = [errDialogs EXCEPT ![c] = @ + 1]
    /\ shown' = [shown EXCEPT ![c] = Append(@, err)]
    /\ result' = [result EXCEPT ![c] = Rejected(err)]
    /\ pc' = [pc EXCEPT ![c] = "done"]

\* resolve returns v.
Return(c, isProxy, v) ==
    /\ result' = [result EXCEPT ![c] = Returned(isProxy, v)]
    /\ pc' = [pc EXCEPT ![c] = "done"]
    /\ UNCHANGED <<errDialogs, shown>>

\* resolve(data) from its first line to its first suspension: the known-module
\* lookup, and the synchronous part of _resolveLocalFile.
Resolve(c, data) ==
    /\ pc[c] = "idle"
    /\ moduleName' = [moduleName EXCEPT ![c] = data]
    /\ IF resolveKnownModule(data) # Null
       THEN /\ Return(c, TRUE, resolveKnownModule(data))
            /\ UNCHANGED docReads
       ELSE IF ~startsWith(data, ".")
       THEN /\ pc' = [pc EXCEPT ![c] = "localNull"]
            /\ UNCHANGED <<result, errDialogs, shown, docReads>>
       ELSE IF documentManager = "null"
       THEN /\ Throw(c, ErrNoDocumentManager(data))
            /\ UNCHANGED docReads
       ELSE IF basePath = "null"
       THEN /\ Throw(c, ErrNoBasePath(data))
            /\ UNCHANGED docReads
       ELSE /\ docReads' = [docReads EXCEPT ![c] = @ + 1]
            /\ pc' = [pc EXCEPT ![c] = "awaitContents"]
            /\ UNCHANGED <<result, errDialogs, shown>>
    /\ UNCHANGED <<allowCDN, documentManager, basePath, lastRead, reads, decision,
                   newPolicy, prompts, writes, loaderCalls, loaded, consent, got>>

\* contents.get settled with file; resolve returns file.content unless it is null.
ContentsGetDone(c, content) ==
    /\ pc[c] = "awaitContents"
    /\ IF content # Null
       THEN Return(c, FALSE, content)
       ELSE /\ pc' = [pc EXCEPT ![c] = "localNull"]
            /\ UNCHANGED <<result, errDialogs, shown>>
    /\ UNCHANGED <<allowCDN, documentManager, basePath, moduleName, lastRead, reads,
                   decision, newPolicy, prompts, writes, loaderCalls, loaded, docReads,
                   consent, got>>

\* contents.get rejected.
ContentsGetFail(c) ==
    /\ pc[c] = "awaitContents"
    /\ Throw(c, ErrContents)
    /\ UNCHANGED <<allowCDN, documentManager, basePath, moduleName, lastRead, reads,
                   decision, newPolicy, prompts, writes, loaderCalls, loaded, docReads,
                   consent, got>>

\* _getCDNConsent from its first line to its first suspension or its return:
\* read the policy; prompt, or hand back a consent.
getCDNConsent(c) ==
    /\ lastRead' = [lastRead EXCEPT ![c] = allowCDN]
    /\ reads' = [reads EXCEPT ![c] = @ + 1]
    /\ IF consentSwitch(allowCDN) = "prompt"
       THEN /\ prompts' = [prompts EXCEPT ![c] = @ + 1]
            /\ pc' = [pc EXCEPT ![c] = "awaitDialog"]
            /\ UNCHANGED consent
       ELSE /\ consent' = [consent EXCEPT ![c] = consentSwitch(allowCDN)]
            /\ pc' = [pc EXCEPT ![c] = "awaitConsent"]
            /\ UNCHANGED prompts

\* Mutant of AfterLocalFile: consent evaluation waits while another call is
\* between its prompt and its re-read.
AfterLocalFile_Serialized(c) ==
    /\ pc[c] = "localNull"
    /\ \A d \in Calls : pc[d] \notin {"awaitDialog", "awaitSet", "setDone"}
    /\ getCDNConsent(c)
    /\ UNCHANGED <<allowCDN, documentManager, basePath, moduleName, result,
                   decision, newPolicy, writes, loaderCalls, loaded, docReads,
                   errDialogs, shown, got>>

\* resolve resumes with localFile = null and calls _getCDNConsent.
AfterLocalFile(c) ==
    /\ pc[c] = "localNull"
    /\ getCDNConsent(c)
    /\ UNCHANGED <<allowCDN, documentManager, basePath, moduleName, result,
                   decision, newPolicy, writes, loaderCalls, loaded, docReads,
                   errDialogs, shown, got>>

\* The user presses a button of the call's prompt; _getCDNConsent resumes
\* with the new policy: it throws on abort, and calls settings.set otherwise.
DialogAnswer(c, label) ==
    /\ pc[c] = "awaitDialog"
    /\ decision' = [decision EXCEPT ![c] = label]
    /\ IF askUserForCDNPolicy(label) = "abort-to-investigate"
       THEN /\ Throw(c, ErrAborted)
            /\ UNCHANGED newPolicy
       ELSE /\ newPolicy' = [newPolicy EXCEPT ![c] = askUserForCDNPolicy(label)]
            /\ pc' = [pc EXCEPT ![c] = "awaitSet"]
            /\ UNCHANGED <<result, errDialogs, shown>>
    /\ UNCHANGED <<allowCDN, documentManager, basePath, moduleName, lastRead, reads,
                   prompts, writes, loaderCalls, loaded, docReads, consent, got>>

\* The settings store completes the call's settings.set('allowCDN', newPolicy).
SettingsSet(c) ==
    /\ pc[c] = "awaitSet"
    /\ allowCDN' = newPolicy[c]
    /\ writes' = [writes EXCEPT ![c] = @ + 1]
    /\ pc' = [pc EXCEPT ![c] = "setDone"]
    /\ UNCHANGED <<documentManager, basePath, moduleName, result, lastRead, reads,
                   decision, newPolicy, prompts, loaderCalls, loaded, docReads,
                   errDialogs, shown, consent, got>>

\* Mutants of Reevaluate: the consent is taken from the call's own new policy
\* without reading the setting again; settings.set is not awaited.
Reevaluate_TrustsOwnDecision(c) ==
    /\ pc[c] = "setDone"
    /\ consent' = [consent EXCEPT ![c] = consentSwitch(newPolicy[c])]
    /\ pc' = [pc EXCEPT ![c] = "awaitConsent"]
    /\ UNCHANGED <<allowCDN, documentManager, basePath, moduleName, result,
                   decision, newPolicy, writes, loaderCalls, loaded, docReads,
                   errDialogs, shown, got, lastRead, reads, prompts>>

Reevaluate_NoAwait(c) ==
    /\ pc[c] \in {"awaitSet", "setDone"}
    /\ getCDNConsent(c)
    /\ UNCHANGED <<allowCDN, documentManager, basePath, moduleName, result,
                   decision, newPolicy, writes, loaderCalls, loaded, docReads,
                   errDialogs, shown, got>>

\* _getCDNConsent resumes after the write and calls itself.
Reevaluate(c) ==
    /\ pc[c] = "setDone"
    /\ getCDNConsent(c)
    /\ UNCHANGED <<allowCDN, documentManager, basePath, moduleName, result,
                   decision, newPolicy, writes, loaderCalls, loaded, docReads,
                   errDialogs, shown, got>>

\* resolve resumes with the consent: throws unless agreed, else calls
\* _resolveAMDModule, which invokes requirejs.require.
AfterConsent(c) ==
    /\ pc[c] = "awaitConsent"
    /\ IF consent[c] # "agreed"
       THEN /\ Throw(c, ErrNotAllowed(moduleName[c]))
            /\ UNCHANGED loaderCalls
       ELSE /\ loaderCalls' = [loaderCalls EXCEPT ![c] = @ + 1]
            /\ pc' = [pc EXCEPT ![c] = "awaitAMD"]
            /\ UNCHANGED <<result, errDialogs, shown>>
    /\ UNCHANGED <<allowCDN, documentManager, basePath, moduleName, lastRead, reads,
                   decision, newPolicy, prompts, writes, docReads, consent, got,
                   loaded>>

\* Mutant of LoaderSuccess: the value is returned without the null test.
LoaderSuccess_NoNullTest(c, mod) ==
    /\ pc[c] = "awaitAMD"
    /\ loaded' = [loaded EXCEPT ![c] = mod]
    /\ Return(c, FALSE, mod)
    /\ UNCHANGED <<allowCDN, documentManager, basePath, moduleName, lastRead, reads,
                   decision, newPolicy, prompts, writes, loaderCalls, docReads,
                   consent, got>>

\* Mutant of LoaderError: the loader's error callback is not connected to the
\* promise, which then never settles.
LoaderError_NoReject(c) ==
    /\ pc[c] = "awaitAMD"
    /\ loaded' = [loaded EXCEPT ![c] = "error"]
    /\ pc' = [pc EXCEPT ![c] = "hung"]
    /\ UNCHANGED <<allowCDN, documentManager, basePath, moduleName, result,
                   lastRead, reads, decision, newPolicy, prompts, writes,
                   loaderCalls, docReads, errDialogs, shown, consent, got>>

\* The loader calls its success callback with mod.
LoaderSuccess(c, mod) ==
    /\ pc[c] = "awaitAMD"
    /\ loaded' = [loaded EXCEPT ![c] = mod]
    /\ IF mod # Null
       THEN Return(c, FALSE, mod)
       ELSE Throw(c, ErrCouldNotResolve(moduleName[c]))
    /\ UNCHANGED <<allowCDN, documentManager, basePath, moduleName, lastRead, reads,
                   decision, newPolicy, prompts, writes, loaderCalls, docReads,
                   consent, got>>

\* The loader calls its error callback.
LoaderError(c) ==
    /\ pc[c] = "awaitAMD"
    /\ loaded' = [loaded EXCEPT ![c] = "error"]
    /\ Throw(c, ErrLoader)
    /\ UNCHANGED <<allowCDN, documentManager, basePath, moduleName, lastRead, reads,
                   decision, newPolicy, prompts, writes, loaderCalls, docReads,
                   consent, got>>

\* The plugin reads attribute prop of the value the call returned.
ReadAttr(c, prop) ==
    /\ pc[c] = "done"
    /\ result[c].status = "returned"
    /\ result[c].val \notin {Null, Undefined}
    /\ got' = [got EXCEPT ![c] =
                  [prop |-> prop, val |-> GetAttr(result[c], moduleName[c], prop)]]
    /\ UNCHANGED <<allowCDN, documentManager, basePath, pc, moduleName, result,
                   lastRead, reads, decision, newPolicy, prompts, writes, loaderCalls, loaded,
                   docReads, errDialogs, shown, consent>>

Next ==
    \E c \in Calls :
        \/ \E data \in ModuleNames : Resolve(c, data) /\ UNCHANGED pluginVars
        \/ \E content \in FileContents :
               ContentsGetDone(c, content) /\ UNCHANGED pluginVars
        \/ ContentsGetFail(c) /\ UNCHANGED pluginVars
        \/ AfterLocalFile(c) /\ UNCHANGED pluginVars
        \/ \E label \in Buttons : DialogAnswer(c, label) /\ UNCHANGED pluginVars
        \/ SettingsSet(c) /\ UNCHANGED pluginVars
        \/ Reevaluate(c) /\ UNCHANGED pluginVars
        \/ AfterConsent(c) /\ UNCHANGED pluginVars
        \/ \E mod \in AMDValues : LoaderSuccess(c, mod) /\ UNCHANGED pluginVars
        \/ LoaderError(c) /\ UNCHANGED pluginVars
        \/ \E prop \in Props : ReadAttr(c, prop) /\ UNCHANGED pluginVars

Spec == Init /\ [][Next]_vars

\* What the environment and the event loop owe a call that has started: the
\* content read completes or fails, the prompt is answered, the settings
\* write completes, the loader calls one callback, and each continuation of
\* resolve runs once its promise has settled.
Progress(c) ==
    /\ \/ \E content \in FileContents : ContentsGetDone(c, content)
       \/ ContentsGetFail(c)
       \/ AfterLocalFile(c)
       \/ \E label \in Buttons : DialogAnswer(c, label)
       \/ SettingsSet(c)
       \/ Reevaluate(c)
       \/ AfterConsent(c)
       \/ \E mod \in AMDValues : LoaderSuccess(c, mod)
       \/ LoaderError(c)
    /\ UNCHANGED pluginVars

FairSpec == Spec /\ \A c \in Calls : WF_vars(Progress(c))

--------------------------------------------------------------------------
\* The transpiler.  A plugin source is a sequence of top-level statements:
\*   importNamed        import { a } from '<mod>';   (a is used below)
\*   importSide         import '<mod>';
\*   exportDefaultExpr  export default a;
\*   exportDefaultDecl  export default function activate() {}
\*   exportEquals       export = a;
\* Text is a sequence of tokens; the blank and the line break are tokens.
MaxStmts == 2

PluginModules == {ModM, ModA, ModExt}

ImportKinds == {"importNamed", "importSide"}

Statements ==
    {[kind |-> k, mod |-> m] : k \in ImportKinds, m \in PluginModules}
        \cup {[kind |-> k, mod |-> <<>>] :
                  k \in {"exportDefaultExpr", "exportDefaultDecl", "exportEquals"}}

\* The sources of at most MaxStmts statements whose imports fit the calls.
Sources ==
    {s \in UNION {[1..n -> Statements] : n \in 0..MaxStmts} :
        Cardinality({i \in DOMAIN s : s[i].kind \in ImportKinds}) <= NumCalls}

\* The module specifier as it stands in the emitted text.
ModuleText(m) ==
    CASE m = ModM -> "\"m\""
      [] m = ModA -> "\"./a\""
      [] m = ModExt -> "\"e\""

ModuleOf(tok) == CHOOSE m \in PluginModules : ModuleText(m) = tok

\* ts.isExportAssignment(node): `export default <expr>;` and `export = <expr>;`
\* are export assignments; a declaration carrying the export and default
\* modifiers is a declaration node.
isExportAssignment(node) == node.kind \in {"exportDefaultExpr", "exportEquals"}

\* node.getChildren().some(node => node.kind === ts.SyntaxKind.DefaultKeyword)
hasDefaultClause(node) == node.kind # "exportEquals"

\* What visit leaves in defaultExport: set at an export assignment with the
\* default keyword.
defaultExport(source) ==
    \E i \in DOMAIN source :
        isExportAssignment(source[i]) /\ hasDefaultClause(source[i])

\* The text ts.transpileModule emits for one statement with module CommonJS.
EmitStatement(node) ==
    CASE node.kind = "importNamed" ->
             <<"const", " ", "a_1", " ", "=", " ", "require(",
               ModuleText(node.mod), ")", ";", "\n">>
      [] node.kind = "importSide" ->
             <<"require(", ModuleText(node.mod), ")", ";", "\n">>
      [] node.kind = "exportDefaultExpr" ->
             <<"exports.default", " ", "=", " ", "a", ";", "\n">>
      [] node.kind = "exportDefaultDecl" ->
             <<"exports.default", " ", "=", " ", "activate", ";", "\n",
               "function", " ", "activate()", " ", "{ }", "\n">>
      [] node.kind = "exportEquals" ->
             <<"module.exports", " ", "=", " ", "a", ";", "\n">>

\* result.outputText
outputText(source) ==
    LET F[i \in 0..Len(source)] ==
            IF i = 0 THEN <<"\"use strict\";", "\n">>
            ELSE F[i - 1] \o EmitStatement(source[i])
    IN  F[Len(source)]

\* text.replace(/ require\(/g, ' await require(')
replaceRequire(text) ==
    LET F[i \in 0..Len(text)] ==
            IF i = 0 THEN <<>>
            ELSE F[i - 1] \o
                 (IF text[i] = "require(" /\ i > 1 /\ text[i - 1] = " "
                  THEN <<"await", " ", "require(">>
                  ELSE <<text[i]>>)
    IN  F[Len(text)]

\* The wrapping of the rewritten body.
Wrap(body) ==
    <<"'use strict';", "\n", "const", " ", "exports", " ", "=", " ", "{}", ";",
      "\n">> \o body \o <<"\n", "return", " ", "exports", ";">>

\* transpile(code, requireDefaultExport): the transformer throws after its
\* visit of the source, before anything is emitted.
transpile(source, required) ==
    IF ~defaultExport(source) /\ required
    THEN [status |-> "NoDefaultExportError", text |-> <<>>]
    ELSE [status |-> "returned", text |-> Wrap(replaceRequire(outputText(source)))]

--------------------------------------------------------------------------
\* The host runs the returned text as the body of an async function whose
\* `require` is the resolver's resolve.

\* The require calls of a body in textual order, each awaited or not.
requireCalls(text) ==
    LET F[i \in 0..Len(text)] ==
            IF i = 0 THEN <<>>
            ELSE IF text[i] = "require("
                 THEN Append(F[i - 1],
                             [mod |-> ModuleOf(text[i + 1]),
                              awaited |-> i > 2 /\ text[i - 1] = " "
                                                /\ text[i - 2] = "await"])
                 ELSE F[i - 1]
    IN  F[Len(text)]

Program == requireCalls(transpiled.text)

resolverVars == <<allowCDN, documentManager, basePath, pc, moduleName, result,
                  lastRead, decision, newPolicy, prompts, writes, loaderCalls,
                  docReads, errDialogs, consent, got, shown, reads, loaded>>

\* One plugin instance with a source and a properly configured resolver.
PluginInit ==
    /\ ResolverInit
    /\ documentManager = "dm"
    /\ basePath = "path"
    /\ code \in Sources
    /\ requireDefaultExport \in BOOLEAN
    /\ transpiled = NotTranspiled
    /\ plugin = "source"
    /\ ip = 0
    /\ waiting = 0

\* The host calls transpile; with a body returned it starts the function.
Transpile ==
    /\ plugin = "source"
    /\ transpiled' = transpile(code, requireDefaultExport)
    /\ plugin' = IF transpiled'.status = "returned" THEN "running" ELSE "notLoaded"
    /\ ip' = 1
    /\ UNCHANGED <<code, requireDefaultExport, waiting, resolverVars>>

\* The body reaches its next require call: resolve runs up to its first
\* await; an awaited call suspends the body, another one lets it run on.
Require ==
    /\ plugin = "running"
    /\ ip <= Len(Program)
    /\ Resolve(ip, Program[ip].mod)
    /\ IF Program[ip].awaited
       THEN plugin' = "awaiting" /\ waiting' = ip /\ ip' = ip
       ELSE plugin' = "running" /\ waiting' = 0 /\ ip' = ip + 1
    /\ UNCHANGED <<code, requireDefaultExport, transpiled>>

\* The awaited call has settled: the body goes on with the value or throws.
Resume ==
    /\ plugin = "awaiting"
    /\ pc[waiting] = "done"
    /\ IF result[waiting].status = "returned"
       THEN plugin' = "running" /\ ip' = ip + 1
       ELSE plugin' = "failed" /\ ip' = ip
    /\ waiting' = 0
    /\ UNCHANGED <<code, requireDefaultExport, transpiled, resolverVars>>

\* The body reaches `return exports`.
Finish ==
    /\ plugin = "running"
    /\ ip > Len(Program)
    /\ plugin' = "returned"
    /\ UNCHANGED <<code, requireDefaultExport, transpiled, ip, waiting,
                   resolverVars>>

\* The body is not running: promises of resolve calls may settle.
Suspended == plugin # "running"

PluginNext ==
    \/ Transpile
    \/ Require
    \/ Resume
    \/ Finish
    \/ \E c \in Calls :
        \/ \E content \in FileContents :
               Suspended /\ ContentsGetDone(c, content) /\ UNCHANGED pluginVars
        \/ Suspended /\ ContentsGetFail(c) /\ UNCHANGED pluginVars
        \/ Suspended /\ AfterLocalFile(c) /\ UNCHANGED pluginVars
        \/ \E label \in Buttons :
               Suspended /\ DialogAnswer(c, label) /\ UNCHANGED pluginVars
        \/ Suspended /\ SettingsSet(c) /\ UNCHANGED pluginVars
        \/ Suspended /\ Reevaluate(c) /\ UNCHANGED pluginVars
        \/ Suspended /\ AfterConsent(c) /\ UNCHANGED pluginVars
        \/ \E mod \in AMDValues :
               Suspended /\ LoaderSuccess(c, mod) /\ UNCHANGED pluginVars
        \/ Suspended /\ LoaderError(c) /\ UNCHANGED pluginVars

PluginSpec == PluginInit /\ [][PluginNext]_vars

--------------------------------------------------------------------------
--------------------------------------------------------------------------
Decided == {"always-insecure", "never"}

Settled(c) == pc[c] = "done"

\* C1: the remote loader is invoked for a call only after that call's consent
\* check read the policy as always-insecure: a call that invoked the loader
\* last read always-insecure, whatever the other calls did to the policy.
C1_LoaderOnlyAfterAlwaysInsecure ==
    \A c \in Calls : loaderCalls[c] > 0 => lastRead[c] = "always-insecure"

\* The loader was invoked for a call that had prompted, while a sibling call's
\* write of the opposite decision is in flight or done.
C1_Witness ==
    \E c, d \in Calls :
        /\ c # d
        /\ loaderCalls[c] = 1
        /\ prompts[c] = 1
        /\ newPolicy[d] = "never"
        /\ allowCDN = "never"

\* C2: a call that reaches the remote strategy while the policy is never is
\* refused: no prompt, no settings write, no loader call, and it rejects with
\* the not-allowed error.
C2_NeverDeniesWithoutPromptWriteOrLoader ==
    \A c \in Calls :
        (lastRead[c] = "never" /\ decision[c] = "none") =>
            /\ prompts[c] = 0
            /\ writes[c] = 0
            /\ newPolicy[c] = "none"
            /\ loaderCalls[c] = 0
            /\ pc[c] \in {"awaitConsent", "done"}
            /\ pc[c] = "awaitConsent" => consent[c] = "refused"
            /\ Settled(c) =>
                   /\ result[c] = Rejected(ErrNotAllowed(moduleName[c]))
                   /\ errDialogs[c] = 1

\* A call was refused on a policy of never without ever prompting.
C2_Witness ==
    \E c \in Calls :
        /\ Settled(c)
        /\ lastRead[c] = "never"
        /\ decision[c] = "none"
        /\ result[c].status = "rejected"

C4_AbortRejectsWithoutWriteOrLoader ==
    \A c \in Calls :
        decision[c] = "Abort" =>
            /\ Settled(c)
            /\ result[c] = Rejected(ErrAborted)
            /\ errDialogs[c] = 1
            /\ newPolicy[c] = "none"
            /\ writes[c] = 0
            /\ loaderCalls[c] = 0
            /\ lastRead[c] = "awaiting-decision"

\* A call was aborted and the policy is still awaiting-decision.
C4_Witness ==
    \E c \in Calls :
        /\ decision[c] = "Abort"
        /\ result[c].status = "rejected"
        /\ allowCDN = "awaiting-decision"

ResolvedFromLocalFile(c) ==
    /\ result[c].status = "returned"
    /\ docReads[c] > 0
    /\ result[c].val \in FileContents \ {Null}

\* C7: the first strategy that resolves the identifier produces the result
\* and no later one is attempted.  A call for a registered identifier, with
\* the relative marker or not, is settled at once with the registered module
\* and reads no document, reads no policy, opens no prompt and calls no
\* loader; a call resolved from a local file reads no policy, opens no prompt
\* and calls no loader; the loader is reached only by a call that neither
\* earlier strategy resolved.
C7_StrictPrecedence ==
    \A c \in Calls :
        /\ (pc[c] # "idle" /\ moduleName[c] \in DOMAIN modules) =>
               /\ Settled(c)
               /\ result[c].status = "returned"
               /\ result[c].val = modules[moduleName[c]]
               /\ docReads[c] = 0
               /\ lastRead[c] = "none"
               /\ prompts[c] = 0
               /\ writes[c] = 0
               /\ loaderCalls[c] = 0
               /\ errDialogs[c] = 0
        /\ ResolvedFromLocalFile(c) =>
               /\ moduleName[c] \notin DOMAIN modules
               /\ moduleName[c][1] = "."
               /\ docReads[c] = 1
               /\ lastRead[c] = "none"
               /\ prompts[c] = 0
               /\ writes[c] = 0
               /\ loaderCalls[c] = 0
        /\ lastRead[c] # "none" =>
               /\ moduleName[c] \notin DOMAIN modules
               /\ ~ResolvedFromLocalFile(c)
               /\ moduleName[c][1] = "." => docReads[c] = 1

\* Under a policy that would refuse or prompt, a relative registered
\* identifier was resolved from the map and another call from a local file.
C7_Witness ==
    \E c, d \in Calls :
        /\ allowCDN # "always-insecure"
        /\ moduleName[c] = ModK
        /\ documentManager = "dm"
        /\ basePath = "path"
        /\ Settled(c)
        /\ ResolvedFromLocalFile(d)

\* The call is for a registered module and the plugin has read a
\* string-keyed attribute of the value it returned.
ReadOfKnown(c) ==
    /\ got[c] # NoGet
    /\ got[c].prop.isString
    /\ moduleName[c] \in DOMAIN modules

\* C8: reading string attribute x on the value resolve(m) returned for a
\* known module m yields the token registered under "m:x" when the token map
\* has that key, also when m exposes x itself, and m's own attribute x
\* otherwise.
C8_TokenPrecedenceOnKnownModules ==
    \A c \in Calls :
        ReadOfKnown(c) =>
            LET key == moduleName[c] \o <<":">> \o got[c].prop.name
                own == OwnAttrs(modules[moduleName[c]])
            IN  got[c].val =
                    IF key \in DOMAIN tokenMap THEN tokenMap[key]
                    ELSE IF got[c].prop.name \in DOMAIN own
                         THEN own[got[c].prop.name]
                         ELSE AttrUndefined

\* x was read on known module m, which exposes x and has the token "m:x",
\* and the read gave the token.
C8_Witness ==
    \E c \in Calls :
        /\ ReadOfKnown(c)
        /\ moduleName[c] = ModM
        /\ got[c].prop.name = PropX
        /\ PropX \in DOMAIN OwnAttrs(ObjM)
        /\ got[c].val = <<"Token", "m", ":", "x">>

\* C9 as stated: whichever strategy produced the value resolve returned, a
\* read of a string attribute for which a token "<module>:<attribute>" exists
\* gives the token.
C9_TokenInterceptsEveryStrategy ==
    \A c \in Calls :
        (got[c] # NoGet /\ got[c].prop.isString) =>
            LET key == moduleName[c] \o <<":">> \o got[c].prop.name
            IN  key \in DOMAIN tokenMap => got[c].val = tokenMap[key]

\* C10 as stated: a known-module resolution whose requested attribute is
\* absent from the module and has no token is rejected with an error naming
\* the module and the attribute (so the plugin gets no value for it), and no
\* document is read and no loader called.
C10_MissingAttributeRejects ==
    \A c \in Calls :
        (/\ ReadOfKnown(c)
         /\ got[c].prop.name \notin DOMAIN OwnAttrs(modules[moduleName[c]])
         /\ (moduleName[c] \o <<":">> \o got[c].prop.name) \notin DOMAIN tokenMap)
        =>  /\ result[c].status = "rejected"
            /\ errDialogs[c] = 1
            /\ docReads[c] = 0
            /\ loaderCalls[c] = 0

\* The call is for a relative identifier that is not registered, on a
\* resolver without a document manager or without a base path.
Misconfigured(c) ==
    /\ pc[c] # "idle"
    /\ moduleName[c] \notin DOMAIN modules
    /\ moduleName[c][1] = "."
    /\ (documentManager = "null" \/ basePath = "null")

\* C11: a call for a relative identifier that is not in the known-module map,
\* on a resolver without a document manager or without a base path, fails
\* with the configuration error and attempts nothing else: no content read,
\* no policy read, no prompt, no policy write, no loader call.
C11_ConfigurationErrorDoesNotFallThrough ==
    \A c \in Calls :
        Misconfigured(c) =>
            /\ Settled(c)
            /\ result[c] = Rejected(IF documentManager = "null"
                                    THEN ErrNoDocumentManager(moduleName[c])
                                    ELSE ErrNoBasePath(moduleName[c]))
            /\ docReads[c] = 0
            /\ reads[c] = 0
            /\ lastRead[c] = "none"
            /\ prompts[c] = 0
            /\ newPolicy[c] = "none"
            /\ writes[c] = 0
            /\ loaderCalls[c] = 0

\* A relative identifier failed on the missing base path while the policy
\* would have let the remote strategy through.
C11_Witness ==
    \E c \in Calls :
        /\ Misconfigured(c)
        /\ documentManager = "dm"
        /\ result[c].status = "rejected"
        /\ allowCDN = "always-insecure"

\* C12: a call that fails has handed its error to the error dialog exactly
\* once, the error handed over is the one the call rejects with, and the
\* dialog is requested in the step that rejects (the catch block shows, then
\* rethrows); a call that returns, or is still pending, has shown no dialog.
C12_FailureShownOnceAndRethrown ==
    /\ [](\A c \in Calls :
            /\ result[c].status = "rejected" =>
                   /\ Settled(c)
                   /\ errDialogs[c] = 1
                   /\ shown[c] = <<result[c].error>>
            /\ result[c].status # "rejected" =>
                   /\ errDialogs[c] = 0
                   /\ shown[c] = <<>>)
    /\ [][\A c \in Calls :
            /\ result'[c] # result[c] => result[c] = Pending
            /\ errDialogs'[c] # errDialogs[c] =>
                   /\ result[c] = Pending
                   /\ result'[c].status = "rejected"]_vars

\* Calls have failed with each of two different errors (a refusal and a loader
\* error), each shown once, and no call has returned with a dialog.
C12_Witness ==
    \E c, d \in Calls :
        /\ result[c] = Rejected(ErrNotAllowed(moduleName[c]))
        /\ result[d] = Rejected(ErrLoader)
        /\ errDialogs[c] = 1
        /\ errDialogs[d] = 1

\* Everything the model keeps about one call.
CallState(d) ==
    <<pc[d], moduleName[d], result[d], lastRead[d], decision[d], newPolicy[d],
      prompts[d], writes[d], loaderCalls[d], docReads[d], errDialogs[d],
      consent[d], got[d], shown[d], reads[d], loaded[d]>>

\* C15: the step in which a call's prompt is answered `abort` rejects that
\* call with the abort error and changes nothing else: the policy and every
\* other call's state and outcome stay as they are; afterwards a sibling's
\* open prompt can still be answered and a sibling's fetch can still complete.
C15_AbortCancelsOnlyItsCall ==
    /\ [][\A c \in Calls :
            (decision'[c] = "Abort" /\ decision[c] # "Abort") =>
                /\ result'[c] = Rejected(ErrAborted)
                /\ allowCDN' = allowCDN
                /\ \A d \in Calls \ {c} : CallState(d)' = CallState(d)]_vars
    /\ [](\A c, d \in Calls :
            decision[c] = "Abort" =>
                /\ pc[d] = "awaitDialog" => ENABLED DialogAnswer(d, "Allow")
                /\ pc[d] = "awaitAMD" => ENABLED LoaderSuccess(d, ObjAMD))

\* One call was aborted; its sibling, which had prompted too, answered
\* `allow` and got its module from the loader.
C15_Witness ==
    \E c, d \in Calls :
        /\ decision[c] = "Abort"
        /\ result[c] = Rejected(ErrAborted)
        /\ decision[d] = "Allow"
        /\ result[d] = Returned(FALSE, ObjAMD)

\* C16: consent evaluation is not mutually exclusive: a call that reaches the
\* remote strategy while the policy is awaiting-decision can always open its
\* prompt, whatever prompts and writes of other calls are in flight; so two
\* prompts can be open at once (the witness).
C16_NoMutualExclusionOverConsent ==
    \A c \in Calls :
        (pc[c] = "localNull" /\ allowCDN = "awaiting-decision") =>
            ENABLED (AfterLocalFile(c) /\ pc'[c] = "awaitDialog")

\* Two consent prompts are open and no decision has been persisted.
C16_Witness ==
    \E c, d \in Calls :
        /\ c # d
        /\ pc[c] = "awaitDialog"
        /\ pc[d] = "awaitDialog"
        /\ moduleName[c] # moduleName[d]
        /\ allowCDN = "awaiting-decision"
        /\ \A e \in Calls : writes[e] = 0

\* The policy a decision maps to.
PolicyOf(label) == IF label = "Allow" THEN "always-insecure" ELSE "never"

C18_ReReadOnlyAfterWrite ==
    /\ [](\A c \in Calls :
            pc[c] = "awaitSet" =>
                /\ writes[c] = 0
                /\ reads[c] = 1
                /\ consent[c] = "none"
                /\ loaderCalls[c] = 0)
    /\ [][\A c \in Calls :
            /\ (newPolicy[c] # "none" /\ reads'[c] # reads[c]) =>
                   /\ writes[c] = 1
                   /\ pc[c] = "setDone"
            /\ (newPolicy[c] # "none" /\ loaderCalls'[c] # loaderCalls[c]) =>
                   writes[c] = 1]_vars

\* A call has re-read the policy after its own write while the write of a
\* sibling is still pending.
C18_Witness ==
    \E c, d \in Calls :
        /\ writes[c] = 1
        /\ reads[c] = 2
        /\ pc[d] = "awaitSet"

\* C19: the outcome of the remote strategy follows the loader's callback:
\* the error callback rejects the call with that error, the success callback
\* with null rejects it with "Could not resolve the module <id>", the success
\* callback with any other value (undefined included) makes the call return
\* that value, unwrapped.  The loader is invoked once per such call, after a
\* read of always-insecure, and not again.
C19_OutcomeFollowsLoaderCallback ==
    \A c \in Calls :
        /\ loaderCalls[c] <= 1
        /\ pc[c] = "awaitAMD" => (loaderCalls[c] = 1 /\ loaded[c] = "none")
        /\ loaded[c] # "none" =>
               /\ Settled(c)
               /\ loaderCalls[c] = 1
               /\ lastRead[c] = "always-insecure"
               /\ result[c] =
                      CASE loaded[c] = "error" -> Rejected(ErrLoader)
                        [] loaded[c] = Null ->
                               Rejected(ErrCouldNotResolve(moduleName[c]))
                        [] OTHER -> Returned(FALSE, loaded[c])

\* The loader has failed one call through its error callback and another by
\* calling back with null.
C19_Witness ==
    \E c, d \in Calls :
        /\ loaded[c] = "error"
        /\ result[c] = Rejected(ErrLoader)
        /\ loaded[d] = Null
        /\ result[d].status = "rejected"

C13_NoDefaultExportErrorIffNoneDeclared ==
    transpiled.status # "none" =>
        /\ (transpiled.status = "NoDefaultExportError") <=>
               /\ requireDefaultExport
               /\ ~\E i \in DOMAIN code :
                      code[i].kind \in {"exportDefaultExpr", "exportDefaultDecl"}
        /\ transpiled.status = "NoDefaultExportError" => transpiled.text = <<>>
        /\ transpiled.status = "returned" =>
               transpiled.text = Wrap(replaceRequire(outputText(code)))

\* C14: within one plugin's execution a resolve call starts only after every
\* earlier resolve call of the plugin has settled with a value: at most one
\* call is in flight, and no call starts after a rejected one.
C14_ImportsResolvedOneAtATime ==
    plugin # "none" =>
        \A c, d \in Calls :
            (c < d /\ pc[d] # "idle") =>
                (pc[c] = "done" /\ result[c].status = "returned")

====
